---- MODULE Spec2Model ----
(***************************************************************************)
(* StoryLoom project editor (src/src/app/(pages)/projects/[projectId]/     *)
(* page.tsx): the streaming reply segmenter, the conversation history and  *)
(* its persistence ledger, and the debounced metadata auto-save.           *)
(*                                                                         *)
(* Text is a sequence of one-character strings, so that markers can be cut *)
(* anywhere by the network and the string functions of the code (indexOf,  *)
(* substring, trim, the regular expressions) are computed as JavaScript    *)
(* computes them.                                                          *)
(***************************************************************************)
EXTENDS Integers, Sequences, FiniteSets, TLC

(***************************************************************************)
(* Bounds of the model.                                                    *)
(***************************************************************************)
\* A page session accepts at most this many submits (each makes two ids).
MaxSubmits == 1
\* The same, in the model of a conversation of several turns.
MaxTurns == 2
\* The clock of the auto-save model stops after this many ticks.
MaxTime == 5
\* At most this many metadata edits in one run of the auto-save model.
MaxEdits == 2
\* At most this many manual saves in one run of the auto-save model.
MaxManualSaves == 2

(***************************************************************************)
(* Program constants.                                                      *)
(***************************************************************************)
\* setTimeout(autoSave, 20000) and the ">= 20000" test, in clock ticks of
\* 10 s.
QuiescenceWindow == 2

(***************************************************************************)
(* JavaScript string functions.                                            *)
(***************************************************************************)
IsWhitespace(c) == c \in {" ", "\n"}

Lower(c) ==
  CASE c = "T" -> "t"
    [] c = "H" -> "h"
    [] c = "I" -> "i"
    [] c = "N" -> "n"
    [] c = "K" -> "k"
    [] c = "G" -> "g"
    [] OTHER -> c

\* The text with every letter lowered: how the /i flag compares.
toLowerCase(s) == [k \in 1..Len(s) |-> Lower(s[k])]

MinOf(S) == CHOOSE x \in S : \A y \in S : x <= y

MaxOf(S) == CHOOSE x \in S : \A y \in S : x >= y

\* String.prototype.indexOf(pat, from): 0-based, -1 when absent.
indexOfFrom(s, pat, from) ==
  LET cand == {i \in from..(Len(s) - Len(pat)) :
                 SubSeq(s, i + 1, i + Len(pat)) = pat}
  IN IF cand = {} THEN -1 ELSE MinOf(cand)

indexOf(s, pat) == indexOfFrom(s, pat, 0)

\* String.prototype.substring(start, end): both indices are clamped to
\* [0, length] and swapped when start > end.
substring(s, start, end) ==
  LET clamp(i) == IF i < 0 THEN 0 ELSE IF i > Len(s) THEN Len(s) ELSE i
      a == clamp(start)
      b == clamp(end)
      lo == IF a <= b THEN a ELSE b
      hi == IF a <= b THEN b ELSE a
  IN SubSeq(s, lo + 1, hi)

substringFrom(s, start) == substring(s, start, Len(s))

\* String.prototype.trim().
trim(s) ==
  LET keep == {i \in 1..Len(s) : ~IsWhitespace(s[i])}
  IN IF keep = {} THEN <<>> ELSE SubSeq(s, MinOf(keep), MaxOf(keep))

(***************************************************************************)
(* Markers.                                                                *)
(***************************************************************************)
\* The literal searched by the streaming loop, and written on commit.
OpenTag == <<"<","T","h","i","n","k","i","n","g",">">>

CloseTag == <<"<","/","T","h","i","n","k","i","n","g",">">>

\* The short spelling, as the model emits it.
ShortOpenTag == <<"<","t","h","i","n","k",">">>

ShortCloseTag == <<"<","/","t","h","i","n","k",">">>

\* The spellings /<think(?:ing)?>/i and /<\/think(?:ing)?>/i accept, lowered.
RegexOpenTags == {<<"<","t","h","i","n","k",">">>,
                  <<"<","t","h","i","n","k","i","n","g",">">>}

RegexCloseTags == {<<"<","/","t","h","i","n","k",">">>,
                   <<"<","/","t","h","i","n","k","i","n","g",">">>}

\* Whether one of the patterns starts at 0-based position i of s.
TagAt(s, i, tags) ==
  {t \in tags : i + Len(t) <= Len(s) /\ SubSeq(s, i + 1, i + Len(t)) = t}

\* The first match of /<think(?:ing)?>([\s\S]*?)<\/think(?:ing)?>/i in s:
\* the leftmost opening tag that has a closing tag after it, with the nearest
\* such closing tag (the group is lazy).  found = FALSE when there is none.
thinkMatch(s) ==
  LET low == toLowerCase(s)
      n == Len(s)
      opens == {i \in 0..n : TagAt(low, i, RegexOpenTags) # {}}
      openEnd(i) == i + Len(CHOOSE t \in TagAt(low, i, RegexOpenTags) : TRUE)
      closes(i) == {j \in openEnd(i)..n : TagAt(low, j, RegexCloseTags) # {}}
      good == {i \in opens : closes(i) # {}}
  IN IF good = {}
     THEN [found |-> FALSE, start |-> 0, inner |-> <<>>, end |-> 0]
     ELSE LET i == MinOf(good)
              j == MinOf(closes(i))
              cl == CHOOSE t \in TagAt(low, j, RegexCloseTags) : TRUE
          IN [found |-> TRUE, start |-> i,
              inner |-> SubSeq(s, openEnd(i) + 1, j),
              end |-> j + Len(cl)]

\* s.replace(/<think(?:ing)?>([\s\S]*?)<\/think(?:ing)?>/i, ""): the first
\* match removed, the text around it joined as it is.
removeThinkMatch(s) ==
  LET m == thinkMatch(s)
  IN IF m.found THEN SubSeq(s, 1, m.start) \o SubSeq(s, m.end + 1, Len(s))
     ELSE s

(***************************************************************************)
(* formatHeadersAsBold: text.replace(/^(#{1,6})\s+(.+)$/gm, ...).          *)
(***************************************************************************)
IsLineStart(s, p) == p = 0 \/ s[p] = "\n"

\* The number of "#" characters from 0-based position p on.
HashRun(s, p) ==
  LET stop == {i \in p..Len(s) : i = Len(s) \/ s[i + 1] # "#"}
  IN MinOf(stop) - p

\* The number of whitespace characters from 0-based position p on.
SpaceRun(s, p) ==
  LET stop == {i \in p..Len(s) : i = Len(s) \/ ~IsWhitespace(s[i + 1])}
  IN MinOf(stop) - p

\* The match of the header pattern that starts at line start p: the hashes
\* (1 to 6, followed by whitespace), the longest whitespace run that still
\* leaves a character other than a line break for (.+), and the rest of that
\* line.
headerMatch(s, p) ==
  LET h == HashRun(s, p)
      m == SpaceRun(s, p + h)
      starts == {c \in (p + h + 1)..(p + h + m) : c < Len(s) /\ s[c + 1] # "\n"}
  IN IF ~IsLineStart(s, p) \/ h < 1 \/ h > 6 \/ starts = {}
     THEN [found |-> FALSE, content |-> <<>>, end |-> p]
     ELSE LET c == MaxOf(starts)
              nl == indexOfFrom(s, <<"\n">>, c)
              e == IF nl = -1 THEN Len(s) ELSE nl
          IN [found |-> TRUE, content |-> SubSeq(s, c + 1, e), end |-> e]

RECURSIVE formatFrom(_, _)
formatFrom(s, p) ==
  IF p >= Len(s) THEN <<>>
  ELSE LET m == headerMatch(s, p)
       IN IF m.found
          THEN <<"*", "*">> \o trim(m.content) \o <<"*", "*">> \o formatFrom(s, m.end)
          ELSE <<s[p + 1]>> \o formatFrom(s, p + 1)

formatHeadersAsBold(text) == formatFrom(text, 0)

(***************************************************************************)
(* State.                                                                  *)
(***************************************************************************)
VARIABLES
  \* useState / useRef of ProjectEditor
  conversationHistory,  \* Message[]
  loading,
  inputText,
  messageIdCounter,     \* messageIdCounter.current
  savedMessageIdsRef,   \* savedMessageIdsRef.current, the persistence ledger
  aiMessageRef,         \* aiMessageRef.current
  thinkingRef,          \* thinkingRef.current
  projectDetails,       \* id, title, briefing
  isSaving,
  lastSaveTimeRef,      \* lastSaveTimeRef.current
  debounceTimer,        \* the auto-save effect's pending setTimeout
  \* the running handleSubmit: its position and its locals
  pc,
  thinkingId,
  fullContent,
  currentThinkingText,
  currentResponseText,
  isInsideThinkTag,
  \* the running loadProjectData, and the PATCH requests awaited by autoSave
  \* and handleManualSave
  loadState,
  patchesInFlight,
  \* the environment
  now,                  \* Date.now(), in ticks
  stream,               \* the fragments the generation service has still to send
  store,                \* the store's message records of this project
  serverDetails,        \* the store's project record
  \* history of the external calls, for the properties
  posts,                \* every POST /messages issued, with its outcome
  failedEmpty,          \* turns whose generation failed with no response text
  editCount,            \* metadata edits so far
  manualCount,          \* manual saves so far
  autoSinceEdit,        \* automatic PATCHes issued since the last edit (0, 1, 2+)
  lastManualAt,         \* when handleManualSave last issued its PATCH, or -1
  owed,                 \* a PATCH completed during which the metadata was edited,
                        \* and neither an edit nor a PATCH has followed
  editedInFlight,       \* the metadata was edited during the PATCH in flight
  owedSent              \* a PATCH was issued while one was owed

chatVars == <<conversationHistory, loading, inputText, messageIdCounter,
              savedMessageIdsRef, aiMessageRef, thinkingRef, pc, thinkingId,
              fullContent, currentThinkingText, currentResponseText,
              isInsideThinkTag, stream, store, posts, failedEmpty>>

saveVars == <<projectDetails, isSaving, lastSaveTimeRef, debounceTimer,
              patchesInFlight, now, serverDetails, editCount, manualCount,
              autoSinceEdit, lastManualAt, owed, editedInFlight, owedSent>>

vars == <<chatVars, saveVars, loadState>>

(***************************************************************************)
(* Values.                                                                 *)
(***************************************************************************)
\* A ref that holds null, or a string.
Null == [null |-> TRUE, value |-> <<>>]

Ref(v) == [null |-> FALSE, value |-> v]

\* ref.current || "": null and "" both give "".
OrEmpty(r) == IF r.null THEN <<>> ELSE r.value

ErrorText == <<"E","r","r","o","r"," ","p","r","o","c","e","s","s","i","n","g"," ","r","e","q","u","e","s","t","."," ","P","l","e","a","s","e"," ","t","r","y"," ","a","g","a","i","n",".">>

PlaceholderThinking == <<"A","I"," ","i","s"," ","t","h","i","n","k","i","n","g",".",".",".">>

\* The separator and markers written around the reasoning on commit.
StoredOpen == <<"\n","\n">> \o OpenTag

ProjectId == "p1"

defaultBriefing == "Dramatic"

\* What the user may type into the prompt box.
Inputs == {<<" ">>, <<"h","i">>}

\* What the user may set the title and the briefing to.
Titles == {"T1", "T2"}

Briefings == {"Dramatic", "Comic"}

\* The replies the generation service may stream, as fragment sequences.
Replies ==
  { <<>>,
    << <<"a"," ","<","T","h","i">>,
       <<"n","k","i","n","g",">","b","<","/","T","h","i","n","k","i","n","g",">"," ","c">> >>,
    << <<"<","t","h","i","n","k",">","b","<","/","t","h","i","n","k",">">> >>,
    << <<"<","T","h","i","n","k","i","n","g",">","b">> >>,
    << <<"#"," ","h">> >> }

\* The message records the store may hold when the page opens.
InitialStores ==
  { <<>>,
    << [id |-> <<"s", 1>>, role |-> "USER", content |-> <<"h","i">>],
       [id |-> <<"s", 2>>, role |-> "AI",
        content |-> <<"a","\n","\n","<","T","h","i","n","k","i","n","g",">","b","<","/","T","h","i","n","k","i","n","g",">">>] >> }

\* The project record the store holds when the page opens.
InitialServerDetails ==
  [id |-> ProjectId, title |-> "T1", briefing |-> "Comic", hasBriefing |-> TRUE]

(***************************************************************************)
(* The streaming segmenter (the body of the read loop).                    *)
(***************************************************************************)
\* The literal of the "alternative format" lookups: in this source it is the
\* same literal as the standard one.
AltOpenTag == <<"<","T","h","i","n","k","i","n","g",">">>

AltCloseTag == <<"<","/","T","h","i","n","k","i","n","g",">">>

\* One pass of the loop body over the cumulative buffer: the new
\* (thinking, response, inside) from the buffer and the previous values.
segmentChunk(content, prevThinking, prevResponse, prevInside) ==
  LET openTagIndex == indexOf(content, OpenTag)
      closeTagIndex == indexOf(content, CloseTag)
      altOpenTagIndex == IF openTagIndex = -1 THEN indexOf(content, AltOpenTag) ELSE -1
      altCloseTagIndex == IF closeTagIndex = -1 THEN indexOf(content, AltCloseTag) ELSE -1
      effectiveOpenTagIndex == IF openTagIndex # -1 THEN openTagIndex ELSE altOpenTagIndex
      effectiveCloseTagIndex == IF closeTagIndex # -1 THEN closeTagIndex ELSE altCloseTagIndex
      tagLength == IF openTagIndex # -1 THEN 10 ELSE IF altOpenTagIndex # -1 THEN 7 ELSE 10
      closeTagLength == IF closeTagIndex # -1 THEN 11 ELSE IF altCloseTagIndex # -1 THEN 8 ELSE 11
  IN IF effectiveOpenTagIndex # -1 /\ effectiveCloseTagIndex = -1
     THEN [thinking |-> trim(substringFrom(content, effectiveOpenTagIndex + tagLength)),
           response |-> IF effectiveOpenTagIndex > 0
                        THEN trim(substring(content, 0, effectiveOpenTagIndex))
                        ELSE prevResponse,
           inside |-> TRUE]
     ELSE IF effectiveOpenTagIndex # -1 /\ effectiveCloseTagIndex # -1
     THEN LET beforeThink == trim(substring(content, 0, effectiveOpenTagIndex))
              afterThink == trim(substringFrom(content, effectiveCloseTagIndex + closeTagLength))
          IN [thinking |-> trim(substring(content, effectiveOpenTagIndex + tagLength,
                                          effectiveCloseTagIndex)),
              response |-> trim(beforeThink \o <<" ">> \o afterThink),
              inside |-> FALSE]
     ELSE IF prevInside
     THEN LET tagStart == IF indexOf(content, OpenTag) # -1
                          THEN indexOf(content, OpenTag) + 10
                          ELSE indexOf(content, AltOpenTag) + 7
          IN [thinking |-> trim(substringFrom(content, tagStart)),
              response |-> prevResponse,
              inside |-> prevInside]
     ELSE [thinking |-> prevThinking,
           response |-> trim(content),
           inside |-> prevInside]

\* The result the read loop would give for the complete buffer.
finalPassAsLoop(content) ==
  LET seg == segmentChunk(content, <<>>, <<>>, FALSE)
  IN [thinking |-> seg.thinking, response |-> seg.response]

\* The pass over the complete buffer after the loop.
finalPass(content) ==
  LET m == thinkMatch(content)
  IN IF m.found
     THEN [thinking |-> trim(m.inner), response |-> trim(removeThinkMatch(content))]
     ELSE [thinking |-> <<>>, response |-> content]

(***************************************************************************)
(* The auto-save effect's scheduling: the effect runs again, clearing the  *)
(* pending timer and setting a new one, whenever title, briefing or        *)
(* isSaving changed; the timer's callback closes over the values of that   *)
(* render.                                                                 *)
(***************************************************************************)
armTimer(details, saving, time) ==
  [armed |-> TRUE, due |-> time + QuiescenceWindow, isSaving |-> saving,
   details |-> details]

(***************************************************************************)
(* Page load.                                                              *)
(***************************************************************************)
Thinking_ == <<"T","h","i","n","k","i","n","g",":">>

\* A stored record as a Message of the history (the map of loadProjectData).
deserialize(msg) ==
  LET m == thinkMatch(msg.content)
      at == indexOf(msg.content, Thinking_)
      next == indexOfFrom(msg.content, Thinking_, at + Len(Thinking_))
      parts0 == substring(msg.content, 0, at)
      parts1 == IF next = -1 THEN substringFrom(msg.content, at + Len(Thinking_))
                ELSE substring(msg.content, at + Len(Thinking_), next)
      messageText ==
        IF msg.role # "AI" THEN msg.content
        ELSE formatHeadersAsBold(
               IF m.found THEN trim(removeThinkMatch(msg.content))
               ELSE IF at # -1 THEN trim(parts0)
               ELSE msg.content)
      thinkingText ==
        IF msg.role # "AI" THEN <<>>
        ELSE IF m.found THEN trim(m.inner)
        ELSE IF at # -1 THEN trim(parts1)
        ELSE <<>>
  IN [id |-> msg.id,
      type |-> IF msg.role = "USER" THEN "user" ELSE "ai",
      text |-> messageText,
      thinkingText |-> thinkingText,
      isThinkingVisible |-> FALSE,
      isPending |-> FALSE]

\* loadProjectData, when the GET succeeds: the project and its messages
\* replace the state.  (When the GET fails the error is logged and nothing
\* changes: the page stays as if the load were still under way.)
loadProjectData ==
  /\ loadState = "fetching"
  /\ loadState' = "done"
  /\ projectDetails' =
       [id |-> serverDetails.id, title |-> serverDetails.title,
        briefing |-> IF serverDetails.hasBriefing THEN serverDetails.briefing
                     ELSE defaultBriefing,
        messages |-> store]
  /\ savedMessageIdsRef' =
       savedMessageIdsRef \cup {store[k].id : k \in 1..Len(store)}
  /\ conversationHistory' = [k \in 1..Len(store) |-> deserialize(store[k])]
  /\ lastSaveTimeRef' = now
  /\ debounceTimer' = armTimer(projectDetails', isSaving, now)
  /\ UNCHANGED <<loading, inputText, messageIdCounter, aiMessageRef,
                 thinkingRef, pc, thinkingId, fullContent,
                 currentThinkingText, currentResponseText,
                 isInsideThinkTag, stream, store, posts, failedEmpty,
                 isSaving, patchesInFlight, now, serverDetails, editCount,
                 manualCount, autoSinceEdit, lastManualAt, owed,
                 editedInFlight, owedSent>>

(***************************************************************************)
(* The conversation: addMessage and handleSubmit.                          *)
(***************************************************************************)
\* createUniqueId: the counter after the call; the id is made of it.
createUniqueIdStuck(counter) == counter

createUniqueId(counter) == counter + 1

\* An id made of the clock alone, without the counter.
clientIdUncounted(counter) == <<"c", 0>>

clientId(counter) == <<"c", counter>>

\* addMessage puts the new message at the end of the history.
prependMessage(history, newMessage) == <<newMessage>> \o history

appendMessage(history, newMessage) == Append(history, newMessage)

\* The content addMessage stores for a message.
contentToStore(text, thinkingText) ==
  IF trim(thinkingText) # <<>>
  THEN text \o StoredOpen \o thinkingText \o CloseTag
  ELSE text

\* An addMessage that never persists.
persistSkipped(persist, type, text) == FALSE

\* Whether addMessage goes on to persist the message.
persistWanted(persist, type, text) ==
  persist /\ (type # "ai" \/ (type = "ai" /\ trim(text) # <<>>))

\* The content the final commit of handleSubmit stores.
finalContent(response, thinking) == response \o StoredOpen \o thinking \o CloseTag

\* The store's answer to a POST /messages: a record is created, or not.
storeAfterPost(call, result) ==
  IF result = "ok"
  THEN Append(store, [id |-> <<"s", Len(store) + 1>>, role |-> call.role,
                      content |-> call.content])
  ELSE store

\* What a resolved or rejected POST does to the ledger: fetch rejects only on
\* a network error; a response with an error status resolves.
ledgerAfterPost(ledger, id, result) ==
  IF result = "network_error" THEN ledger ELSE ledger \cup {id}

PostResults == {"ok", "http_error", "network_error"}

setResult(log, result) == [log EXCEPT ![Len(log)].result = result]

\* The catch block of handleSubmit: every pending ai message gets the error
\* text.
markPendingAsError(history) ==
  [k \in 1..Len(history) |->
     IF history[k].type = "ai" /\ history[k].isPending
     THEN [history[k] EXCEPT !.text = ErrorText, !.isPending = FALSE]
     ELSE history[k]]

\* updateAiMessage(id, text)
updateAiMessage(history, id, text) ==
  [k \in 1..Len(history) |->
     IF history[k].id = id THEN [history[k] EXCEPT !.text = formatHeadersAsBold(text)]
     ELSE history[k]]

\* updateThinkingMessage(id, thinkingText)
updateThinkingMessage(history, id, thinkingText) ==
  [k \in 1..Len(history) |->
     IF history[k].id = id THEN [history[k] EXCEPT !.thinkingText = thinkingText]
     ELSE history[k]]

\* The final update of the message once the stream is over.
finalMessageUpdate(history, id, text, thinkingText) ==
  [k \in 1..Len(history) |->
     IF history[k].id = id
     THEN [history[k] EXCEPT !.text = text, !.thinkingText = thinkingText,
                             !.isPending = FALSE, !.isThinkingVisible = FALSE]
     ELSE history[k]]

\* The user types in the prompt box (the input is disabled while loading).
setInputText ==
  /\ ~loading
  /\ \E v \in Inputs : v # inputText /\ inputText' = v
  /\ UNCHANGED <<conversationHistory, loading, messageIdCounter,
                 savedMessageIdsRef, aiMessageRef, thinkingRef, pc, thinkingId,
                 fullContent, currentThinkingText, currentResponseText,
                 isInsideThinkTag, stream, store, posts, failedEmpty,
                 saveVars, loadState>>

\* addMessage of the placeholder (persist = false), then the generation
\* request: how handleSubmit goes on once the user message is added.
requestGeneration(history, counter) ==
  /\ messageIdCounter' = createUniqueId(counter)
  /\ thinkingId' = clientId(messageIdCounter')
  /\ conversationHistory' =
       appendMessage(history,
              [id |-> thinkingId', type |-> "ai", text |-> <<>>,
               thinkingText |-> PlaceholderThinking,
               isThinkingVisible |-> TRUE, isPending |-> TRUE])
  /\ pc' = "generating"

\* handleSubmit up to its first await: the guard, setLoading, and addMessage
\* of the user message up to its POST (or, were the id in the ledger, on to
\* the generation request).
handleSubmitUpTo(limit) ==
  /\ pc = "idle"
  /\ trim(inputText) # <<>> /\ ~loading
  /\ messageIdCounter < 2 * limit
  /\ loading' = TRUE
  /\ LET counter == createUniqueId(messageIdCounter)
         id == clientId(counter)
         history == appendMessage(conversationHistory,
                           [id |-> id, type |-> "user", text |-> inputText,
                            thinkingText |-> <<>>, isThinkingVisible |-> FALSE,
                            isPending |-> FALSE])
     IN IF persistWanted(TRUE, "user", inputText) /\ id \notin savedMessageIdsRef
        THEN /\ posts' = Append(posts, [turn |-> id, role |-> "USER",
                                        content |-> contentToStore(inputText, <<>>),
                                        response |-> inputText,
                                        result |-> "pending"])
             /\ conversationHistory' = history
             /\ messageIdCounter' = counter
             /\ pc' = "userPost"
             /\ UNCHANGED thinkingId
        ELSE /\ posts' = posts
             /\ requestGeneration(history, counter)
  /\ UNCHANGED <<inputText, savedMessageIdsRef, aiMessageRef, thinkingRef,
                 fullContent, currentThinkingText, currentResponseText,
                 isInsideThinkTag, stream, store, failedEmpty, saveVars,
                 loadState>>

handleSubmit == handleSubmitUpTo(MaxSubmits)

\* The POST of the user message settles: addMessage marks the id saved unless
\* fetch rejected, and handleSubmit goes on to the generation request.
userPostSettles ==
  /\ pc = "userPost"
  /\ \E result \in PostResults :
       /\ posts' = setResult(posts, result)
       /\ store' = storeAfterPost(posts[Len(posts)], result)
       /\ savedMessageIdsRef' =
            ledgerAfterPost(savedMessageIdsRef, posts[Len(posts)].turn, result)
  /\ requestGeneration(conversationHistory, messageIdCounter)
  /\ UNCHANGED <<loading, inputText, aiMessageRef, thinkingRef, fullContent,
                 currentThinkingText, currentResponseText, isInsideThinkTag,
                 stream, failedEmpty, saveVars, loadState>>

\* A finally block that leaves the page loading.
finallyKeepsLoading ==
  /\ loading' = loading
  /\ inputText' = <<>>
  /\ aiMessageRef' = Null
  /\ thinkingRef' = Null
  /\ pc' = "idle"

\* The finally block of handleSubmit.
finallyBlock ==
  /\ loading' = FALSE
  /\ inputText' = <<>>
  /\ aiMessageRef' = Null
  /\ thinkingRef' = Null
  /\ pc' = "idle"

\* The 60 s timer that aborts the request is pending from the setTimeout
\* before the fetch to the clearTimeout that follows the response.
abortTimerArmed == pc = "generating"

\* The awaited fetch of the generation request throws (or !response.ok
\* does): the catch block runs, then finally.
requestThrows ==
  /\ conversationHistory' = markPendingAsError(conversationHistory)
  /\ failedEmpty' = failedEmpty \cup {thinkingId}
  /\ finallyBlock
  /\ UNCHANGED <<messageIdCounter, savedMessageIdsRef, thinkingId, fullContent,
                 currentThinkingText, currentResponseText, isInsideThinkTag,
                 stream, store, posts, saveVars, loadState>>

\* The generation request fails: fetch rejects, or the response is not ok.
generationFails ==
  /\ pc = "generating"
  /\ requestThrows

\* The 60 s timer fires: controller.abort() makes the pending fetch reject.
timeoutElapses ==
  /\ abortTimerArmed
  /\ requestThrows

\* The response is ok and has a body: the timeout is cleared and the read
\* loop starts with empty locals.
generationResponds ==
  /\ pc = "generating"
  /\ \E reply \in Replies : stream' = reply
  /\ fullContent' = <<>>
  /\ currentThinkingText' = <<>>
  /\ currentResponseText' = <<>>
  /\ isInsideThinkTag' = FALSE
  /\ pc' = "reading"
  /\ UNCHANGED <<conversationHistory, loading, inputText, messageIdCounter,
                 savedMessageIdsRef, aiMessageRef, thinkingRef, thinkingId,
                 store, posts, failedEmpty, saveVars, loadState>>

\* The response is ok and has no body: nothing is read, finally runs.
generationRespondsWithoutBody ==
  /\ pc = "generating"
  /\ finallyBlock
  /\ UNCHANGED <<conversationHistory, messageIdCounter, savedMessageIdsRef,
                 thinkingId, fullContent, currentThinkingText,
                 currentResponseText, isInsideThinkTag, stream, store, posts,
                 failedEmpty, saveVars, loadState>>

\* One turn of the read loop with a fragment: the buffer grows, is segmented,
\* and the fields that changed are published on the message.
processChunk(chunk) ==
  /\ fullContent' = fullContent \o chunk
  /\ LET seg == segmentChunk(fullContent', currentThinkingText,
                             currentResponseText, isInsideThinkTag)
         h1 == IF seg.thinking # currentThinkingText
               THEN updateThinkingMessage(conversationHistory, thinkingId, seg.thinking)
               ELSE conversationHistory
         h2 == IF seg.response # currentResponseText
               THEN updateAiMessage(h1, thinkingId, seg.response)
               ELSE h1
     IN /\ isInsideThinkTag' = seg.inside
        /\ currentThinkingText' = seg.thinking
        /\ currentResponseText' = seg.response
        /\ conversationHistory' = h2
        /\ thinkingRef' = Ref(seg.thinking)
        /\ aiMessageRef' = Ref(seg.response)
  /\ UNCHANGED <<loading, inputText, messageIdCounter, savedMessageIdsRef, pc,
                 thinkingId, store, posts, failedEmpty, saveVars, loadState>>

readFragment ==
  /\ pc = "reading"
  /\ stream # <<>>
  /\ processChunk(Head(stream))
  /\ stream' = Tail(stream)

\* After the loop: the final pass, the final update of the message and the
\* commit of the assistant message up to its POST.
finalizeAndCommit ==
  LET final == finalPass(fullContent)
      committed == thinkingId \in savedMessageIdsRef
  IN /\ thinkingRef' = IF committed THEN Null ELSE Ref(final.thinking)
     /\ aiMessageRef' = IF committed THEN Null ELSE Ref(final.response)
     /\ conversationHistory' =
          finalMessageUpdate(conversationHistory, thinkingId,
                             formatHeadersAsBold(final.response), final.thinking)
     /\ IF thinkingId \notin savedMessageIdsRef
        THEN /\ posts' = Append(posts,
                  [turn |-> thinkingId, role |-> "AI",
                   content |-> finalContent(OrEmpty(Ref(final.response)),
                                            OrEmpty(Ref(final.thinking))),
                   response |-> OrEmpty(Ref(final.response)),
                   result |-> "pending"])
             /\ pc' = "aiPost"
             /\ UNCHANGED <<loading, inputText>>
        ELSE /\ posts' = posts
             /\ loading' = FALSE
             /\ inputText' = <<>>
             /\ pc' = "idle"
     /\ UNCHANGED <<messageIdCounter, savedMessageIdsRef, thinkingId,
                    fullContent, currentThinkingText, currentResponseText,
                    isInsideThinkTag, store, saveVars, loadState>>

\* reader.read() reports done: the loop ends.
streamEnds ==
  /\ pc = "reading"
  /\ stream = <<>>
  /\ finalizeAndCommit
  /\ UNCHANGED <<stream, failedEmpty>>

\* reader.read() throws: the error is logged, the loop is left, and the code
\* after the loop runs as after a normal end.
readThrows ==
  /\ pc = "reading"
  /\ finalizeAndCommit
  /\ stream' = <<>>
  /\ failedEmpty' = IF fullContent = <<>> THEN failedEmpty \cup {thinkingId}
                    ELSE failedEmpty

\* The POST of the assistant message settles: the id is marked saved, or fetch
\* rejected and the catch block runs; then finally.
aiPostSettles ==
  /\ pc = "aiPost"
  /\ \E result \in PostResults :
       /\ posts' = setResult(posts, result)
       /\ store' = storeAfterPost(posts[Len(posts)], result)
       /\ savedMessageIdsRef' = ledgerAfterPost(savedMessageIdsRef, thinkingId, result)
       /\ conversationHistory' =
            IF result = "network_error" THEN markPendingAsError(conversationHistory)
            ELSE conversationHistory
  /\ finallyBlock
  /\ UNCHANGED <<messageIdCounter, thinkingId, fullContent, currentThinkingText,
                 currentResponseText, isInsideThinkTag, stream, failedEmpty,
                 saveVars, loadState>>

\* toggleThinking(messageId)
toggleThinking ==
  /\ \E j \in 1..Len(conversationHistory) :
       conversationHistory' =
         [k \in 1..Len(conversationHistory) |->
            IF conversationHistory[k].id = conversationHistory[j].id
            THEN [conversationHistory[k] EXCEPT
                    !.isThinkingVisible = ~conversationHistory[k].isThinkingVisible]
            ELSE conversationHistory[k]]
  /\ UNCHANGED <<loading, inputText, messageIdCounter, savedMessageIdsRef,
                 aiMessageRef, thinkingRef, pc, thinkingId, fullContent,
                 currentThinkingText, currentResponseText, isInsideThinkTag,
                 stream, store, posts, failedEmpty, saveVars, loadState>>

(***************************************************************************)
(* The conversation model.                                                 *)
(***************************************************************************)
InitialDetails ==
  [id |-> ProjectId, title |-> "", briefing |-> defaultBriefing, messages |-> <<>>]

InitCommon ==
  /\ loading = FALSE
  /\ inputText = <<>>
  /\ savedMessageIdsRef = {}
  /\ aiMessageRef = Null
  /\ thinkingRef = Null
  /\ projectDetails = InitialDetails
  /\ isSaving = FALSE
  /\ lastSaveTimeRef = 0
  /\ debounceTimer = armTimer(InitialDetails, FALSE, 0)
  /\ loadState = "fetching"
  /\ patchesInFlight = <<>>
  /\ now = 0
  /\ posts = <<>>
  /\ failedEmpty = {}
  /\ editCount = 0
  /\ manualCount = 0
  /\ autoSinceEdit = 0
  /\ lastManualAt = -1
  /\ owed = FALSE
  /\ editedInFlight = FALSE
  /\ owedSent = FALSE

Init ==
  /\ InitCommon
  /\ conversationHistory = <<>>
  /\ messageIdCounter = 0
  /\ pc = "idle"
  /\ thinkingId = clientId(0)
  /\ fullContent = <<>>
  /\ currentThinkingText = <<>>
  /\ currentResponseText = <<>>
  /\ isInsideThinkTag = FALSE
  /\ stream = <<>>
  /\ store \in InitialStores
  /\ serverDetails = InitialServerDetails

Next ==
  \/ loadProjectData
  \/ setInputText
  \/ handleSubmit
  \/ userPostSettles
  \/ generationFails
  \/ timeoutElapses
  \/ generationResponds
  \/ generationRespondsWithoutBody
  \/ readFragment
  \/ streamEnds
  \/ readThrows
  \/ aiPostSettles

Spec == Init /\ [][Next]_vars

\* The same page over a conversation of several turns.
handleSubmitInTurns == handleSubmitUpTo(MaxTurns)

NextTurns ==
  \/ loadProjectData
  \/ setInputText
  \/ handleSubmitInTurns
  \/ userPostSettles
  \/ generationFails
  \/ timeoutElapses
  \/ generationResponds
  \/ generationRespondsWithoutBody
  \/ readFragment
  \/ streamEnds
  \/ readThrows
  \/ aiPostSettles

SpecTurns == Init /\ [][NextTurns]_vars

\* The steps that settle a fetch handleSubmit awaits.
FetchSettles ==
  \/ userPostSettles
  \/ generationFails
  \/ timeoutElapses
  \/ generationResponds
  \/ generationRespondsWithoutBody
  \/ aiPostSettles

(***************************************************************************)
(* Properties of the persistence ledger.                                   *)
(***************************************************************************)
\* The POST /messages calls issued for a turn id.
PostsFor(id) == {k \in 1..Len(posts) : posts[k].turn = id}

ClientIds == {clientId(n) : n \in 0..(2 * (MaxSubmits + MaxTurns) + 2)}

\* C1: no turn id is written to the store more than once, and a turn id the
\* ledger holds for a turn of this session was written exactly once.
C1_AtMostOneWritePerTurn ==
  /\ \A id \in ClientIds : Cardinality(PostsFor(id)) <= 1
  /\ \A id \in ClientIds \cap savedMessageIdsRef : Cardinality(PostsFor(id)) = 1

\* The user turn and the assistant turn of a submit were both committed, with
\* one write each.
C1_Witness ==
  /\ Len(posts) >= 2
  /\ posts[1].role = "USER" /\ posts[2].role = "AI"
  /\ posts[1].turn # posts[2].turn
  /\ {posts[1].turn, posts[2].turn} \subseteq savedMessageIdsRef

\* C2: a turn id is in the ledger only if the store confirmed the write of
\* that turn; after a failed write (a network error or an error status) the
\* id is not in the ledger.
C2_LedgerOnlyAfterConfirmedWrite ==
  \A k \in 1..Len(posts) :
    posts[k].turn \in savedMessageIdsRef => posts[k].result = "ok"

\* C3: every assistant turn written to the store has a non-empty final
\* response text.
C3_AssistantWriteNonEmpty ==
  \A k \in 1..Len(posts) :
    posts[k].role = "AI" => trim(posts[k].response) # <<>>

\* C4: an assistant turn whose generation failed before any text was
\* received is never written to the store.
C4_FailedEmptyNeverWritten ==
  \A id \in failedEmpty : PostsFor(id) = {}

(***************************************************************************)
(* The metadata auto-save: the debounced effect and handleManualSave.      *)
(* Each event handler runs to its next await, and React has rendered (and  *)
(* run the effect again, if its dependencies changed) before the next      *)
(* event is handled.                                                       *)
(***************************************************************************)
\* The timer set by the effect when isSaving changed (isSaving is one of the
\* effect's dependencies).
timerKept(timer, details, saving, time) == timer

timerAfterSavingChange(timer, details, saving, time) == armTimer(details, saving, time)

\* The test at the head of autoSave, on the values its closure holds.
autoSaveUnguarded(saving, currentTime, lastSave) ==
  currentTime - lastSave >= QuiescenceWindow

autoSaveDueStrict(saving, currentTime, lastSave) ==
  ~saving /\ currentTime - lastSave > QuiescenceWindow

autoSaveDue(saving, currentTime, lastSave) ==
  ~saving /\ currentTime - lastSave >= QuiescenceWindow

\* The test at the head of handleManualSave.
manualSaveAllowed(saving) == ~saving

\* A PATCH body that is the whole of projectDetails.
projectWithMessages(details) == details

\* projectWithoutMessages: what a PATCH carries.
projectWithoutMessages(details) ==
  [id |-> details.id, title |-> details.title, briefing |-> details.briefing]

\* The PATCH a handler issues and awaits.
patchRequest(kind, details, time) ==
  [kind |-> kind, body |-> projectWithoutMessages(details), currentTime |-> time]

\* The bookkeeping of the properties when a PATCH is issued.
notePatchIssued ==
  /\ owedSent' = (owedSent \/ owed)
  /\ owed' = FALSE
  /\ editedInFlight' = FALSE

\* The bookkeeping of the properties when the metadata is edited.
noteEdit ==
  /\ editCount' = editCount + 1
  /\ autoSinceEdit' = 0
  /\ owed' = FALSE
  /\ editedInFlight' = (patchesInFlight # <<>>)
  /\ UNCHANGED <<manualCount, lastManualAt, owedSent>>

\* The title input's onChange.
editTitle ==
  /\ editCount < MaxEdits
  /\ \E t \in Titles :
       /\ t # projectDetails.title
       /\ projectDetails' = [projectDetails EXCEPT !.title = t]
  /\ debounceTimer' = armTimer(projectDetails', isSaving, now)
  /\ noteEdit
  /\ UNCHANGED <<chatVars, loadState, isSaving, lastSaveTimeRef,
                 patchesInFlight, now, serverDetails>>

\* handleProjectUpdate(field, value): the briefing is a new object whatever
\* the value, so the effect runs again.
handleProjectUpdate ==
  /\ editCount < MaxEdits
  /\ \E b \in Briefings : projectDetails' = [projectDetails EXCEPT !.briefing = b]
  /\ debounceTimer' = armTimer(projectDetails', isSaving, now)
  /\ noteEdit
  /\ UNCHANGED <<chatVars, loadState, isSaving, lastSaveTimeRef,
                 patchesInFlight, now, serverDetails>>

\* Time passes; a timer that is due fires before the clock moves on.
tick ==
  /\ now < MaxTime
  /\ ~(debounceTimer.armed /\ debounceTimer.due <= now)
  /\ now' = now + 1
  /\ UNCHANGED <<chatVars, loadState, projectDetails, isSaving, lastSaveTimeRef,
                 debounceTimer, patchesInFlight, serverDetails, editCount,
                 manualCount, autoSinceEdit, lastManualAt, owed,
                 editedInFlight, owedSent>>

\* The debounce timer fires: autoSave runs on the values of its closure, up
\* to its await.
autoSave ==
  /\ debounceTimer.armed /\ debounceTimer.due <= now
  /\ IF autoSaveDue(debounceTimer.isSaving, now, lastSaveTimeRef)
     THEN /\ isSaving' = TRUE
          /\ patchesInFlight' =
               Append(patchesInFlight, patchRequest("auto", debounceTimer.details, now))
          /\ debounceTimer' =
               timerAfterSavingChange([debounceTimer EXCEPT !.armed = FALSE],
                                      projectDetails, isSaving', now)
          /\ autoSinceEdit' = IF autoSinceEdit < 2 THEN autoSinceEdit + 1 ELSE 2
          /\ notePatchIssued
     ELSE /\ debounceTimer' = [debounceTimer EXCEPT !.armed = FALSE]
          /\ UNCHANGED <<isSaving, patchesInFlight, autoSinceEdit, owed,
                         editedInFlight, owedSent>>
  /\ UNCHANGED <<chatVars, loadState, projectDetails, lastSaveTimeRef, now,
                 serverDetails, editCount, manualCount, lastManualAt>>

\* handleManualSave up to its await.
handleManualSave ==
  /\ manualCount < MaxManualSaves
  /\ manualSaveAllowed(isSaving)
  /\ isSaving' = TRUE
  /\ patchesInFlight' =
       Append(patchesInFlight, patchRequest("manual", projectDetails, now))
  /\ debounceTimer' = timerAfterSavingChange(debounceTimer, projectDetails, isSaving', now)
  /\ manualCount' = manualCount + 1
  /\ lastManualAt' = now
  /\ notePatchIssued
  /\ UNCHANGED <<chatVars, loadState, projectDetails, lastSaveTimeRef, now,
                 serverDetails, editCount, autoSinceEdit>>

\* The time a completed save leaves in lastSaveTimeRef: autoSave stores the
\* time it read when it started, handleManualSave reads the clock again.
savedAt(request, time) == IF request.kind = "auto" THEN request.currentTime ELSE time

\* PATCH /api/projects/[projectId] on the project record: the title is
\* updated if the body's title is not empty, the briefing is upserted if the
\* body has one.
detailsAfterPatch(body) ==
  [id |-> serverDetails.id,
   title |-> IF "title" \in DOMAIN body /\ body.title # "" THEN body.title
             ELSE serverDetails.title,
   briefing |-> IF "briefing" \in DOMAIN body THEN body.briefing
                ELSE serverDetails.briefing,
   hasBriefing |-> serverDetails.hasBriefing \/ "briefing" \in DOMAIN body]

\* PATCH /api/projects/[projectId] on the message records: a messages array
\* in the body is created as new records.
storeAfterPatch(body) ==
  IF "messages" \in DOMAIN body
  THEN store \o [k \in 1..Len(body.messages) |->
                  [id |-> <<"s", Len(store) + k>>, role |-> body.messages[k].role,
                   content |-> body.messages[k].content]]
  ELSE store

\* A PATCH settles: fetch resolves (whatever the status) and the last save
\* time is updated, or it rejects and the error is logged; then
\* setIsSaving(false).
patchSettles ==
  /\ patchesInFlight # <<>>
  /\ \E result \in PostResults :
       /\ serverDetails' =
            IF result = "ok" THEN detailsAfterPatch(Head(patchesInFlight).body)
            ELSE serverDetails
       /\ store' =
            IF result = "ok" THEN storeAfterPatch(Head(patchesInFlight).body)
            ELSE store
       /\ lastSaveTimeRef' =
            IF result = "network_error" THEN lastSaveTimeRef
            ELSE savedAt(Head(patchesInFlight), now)
  /\ patchesInFlight' = Tail(patchesInFlight)
  /\ isSaving' = FALSE
  /\ debounceTimer' =
       IF isSaving THEN timerAfterSavingChange(debounceTimer, projectDetails, FALSE, now)
       ELSE debounceTimer
  /\ owed' = editedInFlight
  /\ editedInFlight' = FALSE
  /\ UNCHANGED <<conversationHistory, loading, inputText, messageIdCounter,
                 savedMessageIdsRef, aiMessageRef, thinkingRef, pc, thinkingId,
                 fullContent, currentThinkingText, currentResponseText,
                 isInsideThinkTag, stream, posts, failedEmpty, loadState,
                 projectDetails, now, editCount, manualCount, autoSinceEdit,
                 lastManualAt, owedSent>>

InitSave ==
  /\ InitCommon
  /\ serverDetails = InitialServerDetails
  /\ conversationHistory = <<>>
  /\ messageIdCounter = 0
  /\ pc = "idle"
  /\ thinkingId = clientId(0)
  /\ fullContent = <<>>
  /\ currentThinkingText = <<>>
  /\ currentResponseText = <<>>
  /\ isInsideThinkTag = FALSE
  /\ stream = <<>>
  /\ store \in InitialStores

NextSave ==
  \/ loadProjectData
  \/ editTitle
  \/ handleProjectUpdate
  \/ tick
  \/ autoSave
  \/ handleManualSave
  \/ patchSettles

SpecSave == InitSave /\ [][NextSave]_vars

\* Timers fire, requests settle and time passes.
SpecSaveFair ==
  /\ SpecSave
  /\ WF_vars(tick)
  /\ WF_vars(autoSave)
  /\ WF_vars(patchSettles)

(***************************************************************************)
(* Properties of the auto-save.                                            *)
(***************************************************************************)
\* A step that issues a PATCH of the given kind.
PatchIssued(kind) ==
  /\ Len(patchesInFlight') = Len(patchesInFlight) + 1
  /\ patchesInFlight'[Len(patchesInFlight')].kind = kind

\* C5: after the last of N >= 1 metadata edits, at most one automatic PATCH
\* is issued as long as no further edit is made.
C5_AutosaveCoalescing == editCount >= 1 => autoSinceEdit <= 1

C7_ManualFlush ==
  [][ /\ manualCount' = manualCount + 1 =>
           /\ PatchIssued("manual")
           /\ patchesInFlight'[Len(patchesInFlight')].body
                = projectWithoutMessages(projectDetails)
           /\ debounceTimer'.armed
           /\ debounceTimer'.due = now + QuiescenceWindow
      /\ (PatchIssued("auto") /\ lastManualAt >= 0) =>
           now >= lastManualAt + QuiescenceWindow ]_vars

\* An automatic PATCH is in flight and a manual save came before it.
C7_Witness ==
  /\ lastManualAt >= 0
  /\ patchesInFlight # <<>>
  /\ patchesInFlight[1].kind = "auto"

\* C8: once a PATCH during which the metadata was edited has completed, the
\* timer is set with the latest metadata and a closure that will save; unless
\* the metadata is edited again, a PATCH is eventually issued (unless the
\* timer's deadline lies beyond the clock of the model), and it carries the
\* latest metadata.
C8_LatestSentAfterFlight ==
  /\ [](owed => /\ debounceTimer.armed
                /\ ~debounceTimer.isSaving
                /\ debounceTimer.details = projectDetails)
  /\ (owed /\ debounceTimer.due <= MaxTime) ~> (~owed \/ debounceTimer.due > MaxTime)
  /\ [][ (owed /\ (PatchIssued("auto") \/ PatchIssued("manual"))) =>
           patchesInFlight'[Len(patchesInFlight')].body
             = projectWithoutMessages(projectDetails) ]_vars

\* A PATCH was issued after one during which the metadata was edited.
C8_Witness == owedSent

(***************************************************************************)
(* The segmenter model: the read loop and the final pass of one reply, the *)
(* reply cut into fragments at any places.                                 *)
(***************************************************************************)
HelloText == <<"H","e","l","l","o"," ","<","t","h","i","n","k",">","r","e","a","s","o","n","i","n","g"," ","s","t","u","f","f","<","/","t","h","i","n","k",">"," ","w","o","r","l","d">>

\* The raw replies of the segmenter model.
SegTexts ==
  { HelloText,
    <<"a"," ","<","T","h","i","n","k","i","n","g",">","b","<","/","T","h","i","n","k","i","n","g",">"," ","c">>,
    <<"<","T","h","i","n","k","i","n","g",">","b","<","/","T","h","i","n","k","i","n","g",">","c">>,
    <<"a","<","T","h","i","n","k","i","n","g",">","b">>,
    <<"<","T","h","i","n","k","i","n","g",">","b">>,
    <<"<","/","T","h","i","n","k","i","n","g",">","a","<","T","h","i","n","k","i","n","g",">","b">>,
    <<"h","i">>,
    <<"#"," ","h">>,
    <<"c"," ">> }

\* The page after a submit of "hi" whose user message was stored and whose
\* generation request was answered: the read loop is about to start.
InitSeg ==
  /\ InitCommon
  /\ serverDetails = InitialServerDetails
  /\ conversationHistory =
       << [id |-> clientId(1), type |-> "user", text |-> <<"h","i">>,
           thinkingText |-> <<>>, isThinkingVisible |-> FALSE, isPending |-> FALSE],
          [id |-> clientId(2), type |-> "ai", text |-> <<>>,
           thinkingText |-> PlaceholderThinking, isThinkingVisible |-> TRUE,
           isPending |-> TRUE] >>
  /\ messageIdCounter = 2
  /\ pc = "reading"
  /\ thinkingId = clientId(2)
  /\ fullContent = <<>>
  /\ currentThinkingText = <<>>
  /\ currentResponseText = <<>>
  /\ isInsideThinkTag = FALSE
  /\ \E text \in SegTexts : stream = <<text>>
  /\ store = <<>>

\* One turn of the read loop; the network delivers any non-empty prefix of
\* what is left.
readAnyFragment ==
  /\ pc = "reading"
  /\ stream # <<>>
  /\ \E k \in 1..Len(Head(stream)) :
       /\ processChunk(SubSeq(Head(stream), 1, k))
       /\ stream' = IF k = Len(Head(stream)) THEN Tail(stream)
                    ELSE <<SubSeq(Head(stream), k + 1, Len(Head(stream)))>>
                         \o Tail(stream)

NextSeg ==
  \/ readAnyFragment
  \/ streamEnds

SpecSeg == InitSeg /\ [][NextSeg]_vars

(***************************************************************************)
(* Properties of the segmenter.                                            *)
(***************************************************************************)
\* The segmenter's result for a buffer that arrives as one fragment.
segmentWhole(content) == segmentChunk(content, <<>>, <<>>, FALSE)

HelloWorld == <<"H","e","l","l","o"," ","w","o","r","l","d">>

ReasoningStuff == <<"r","e","a","s","o","n","i","n","g"," ","s","t","u","f","f">>

\* C9 (first half): once the last fragment has been processed, the read loop
\* holds the same response and reasoning as for the reply in one fragment.
C9_SplitEqualsUnsplit ==
  (pc = "reading" /\ stream = <<>> /\ fullContent # <<>>) =>
     /\ currentResponseText = segmentWhole(fullContent).response
     /\ currentThinkingText = segmentWhole(fullContent).thinking

\* C9 (second half): the reply "Hello <think>reasoning stuff</think> world"
\* ends, after the last fragment and after the final pass, with the response
\* "Hello world" and the reasoning "reasoning stuff".
C9_HelloExample ==
  /\ (pc = "reading" /\ stream = <<>> /\ fullContent = HelloText) =>
        /\ currentResponseText = HelloWorld
        /\ currentThinkingText = ReasoningStuff
  /\ (pc = "aiPost" /\ fullContent = HelloText) =>
        /\ OrEmpty(aiMessageRef) = HelloWorld
        /\ OrEmpty(thinkingRef) = ReasoningStuff

\* C9: for any reply and any way of cutting it into fragments, the
\* segmenter ends with the result of the unsplit reply, and the fragments
\* "Hello <th", "ink>reasoning stuff</th", "ink> world" end with the response
\* "Hello world" and the reasoning "reasoning stuff".
C9_SplitMarkerRobustness == C9_SplitEqualsUnsplit /\ C9_HelloExample

\* The text with every long marker respelled short.
RECURSIVE toShortSpelling(_)
toShortSpelling(s) ==
  IF s = <<>> THEN <<>>
  ELSE IF Len(s) >= Len(OpenTag) /\ SubSeq(s, 1, Len(OpenTag)) = OpenTag
  THEN ShortOpenTag \o toShortSpelling(SubSeq(s, Len(OpenTag) + 1, Len(s)))
  ELSE IF Len(s) >= Len(CloseTag) /\ SubSeq(s, 1, Len(CloseTag)) = CloseTag
  THEN ShortCloseTag \o toShortSpelling(SubSeq(s, Len(CloseTag) + 1, Len(s)))
  ELSE <<Head(s)>> \o toShortSpelling(Tail(s))

asStoredAi(content) == [id |-> <<"s", 1>>, role |-> "AI", content |-> content]

\* Two results are the same when they agree up to the spelling of a marker
\* that was left in the text.
SameText(a, b) == toShortSpelling(a) = toShortSpelling(b)

SameSplit(a, b) == SameText(a.response, b.response) /\ SameText(a.thinking, b.thinking)

\* C10 (streaming): the buffer with long markers and the same buffer with
\* short markers are segmented alike by the read loop.
C10_StreamingDualSpelling ==
  pc = "reading" =>
    SameSplit(segmentWhole(fullContent), segmentWhole(toShortSpelling(fullContent)))

\* C10 (final pass and load): the final pass and the deserialization give
\* the long and the short spelling the same response and reasoning.
C10_RegexDualSpelling ==
  pc = "reading" =>
    /\ SameSplit(finalPass(fullContent), finalPass(toShortSpelling(fullContent)))
    /\ SameText(deserialize(asStoredAi(fullContent)).text,
                deserialize(asStoredAi(toShortSpelling(fullContent))).text)
    /\ SameText(deserialize(asStoredAi(fullContent)).thinkingText,
                deserialize(asStoredAi(toShortSpelling(fullContent))).thinkingText)

\* C10: a text with the long marker spelling and the same text with the
\* short marker spelling are parsed to the same (response, reasoning) by
\* the streaming segmenter, by the final pass and by deserialization.
C10_DualSpellingEquivalence == C10_StreamingDualSpelling /\ C10_RegexDualSpelling

(***************************************************************************)
(* Properties of the segmentation and of the stored format.                *)
(***************************************************************************)
\* The 0-based positions of s where an opening (closing) marker starts, in
\* either spelling and any case.
OpenStarts(s) == {i \in 0..Len(s) : TagAt(toLowerCase(s), i, RegexOpenTags) # {}}

CloseStarts(s) == {i \in 0..Len(s) : TagAt(toLowerCase(s), i, RegexCloseTags) # {}}

\* The position just after the opening marker that starts at i.
OpenEnd(s, i) == i + Len(CHOOSE t \in TagAt(toLowerCase(s), i, RegexOpenTags) : TRUE)

\* Some opening marker of s has a closing marker after it.
HasMatchedPair(s) ==
  \E i \in OpenStarts(s) : \E j \in CloseStarts(s) : j >= OpenEnd(s, i)

MarkerFree(s) == OpenStarts(s) = {} /\ CloseStarts(s) = {}

\* The text before the first opening marker of s, and the text after it.
BeforeOpen(s) == SubSeq(s, 1, MinOf(OpenStarts(s)))

AfterOpen(s) == SubSeq(s, OpenEnd(s, MinOf(OpenStarts(s))) + 1, Len(s))

\* The pair the finalized turn is committed with.
FinalResponse == OrEmpty(aiMessageRef)

FinalReasoning == OrEmpty(thinkingRef)

\* C11: a stream finalized with an opening marker and no closing marker in
\* its buffer leaves the text before the marker as the response and keeps
\* the text after the marker as reasoning.
C11_DanglingOpenKeptAsReasoning ==
  (pc = "aiPost" /\ OpenStarts(fullContent) # {} /\ CloseStarts(fullContent) = {})
    => /\ FinalResponse = trim(BeforeOpen(fullContent))
       /\ (trim(AfterOpen(fullContent)) # <<>> => FinalReasoning # <<>>)

\* C12: when the complete buffer holds no opening marker with a closing
\* marker after it, the final pass gives the whole buffer as response and an
\* empty reasoning, and the whole buffer is what is committed.
C12_FinalPassWithoutPair ==
  (pc = "aiPost" /\ ~HasMatchedPair(fullContent))
    => /\ FinalResponse = fullContent
       /\ FinalReasoning = <<>>
       /\ posts[Len(posts)].response = fullContent

\* A stream was finalized whose buffer holds an unmatched opening marker.
C12_Witness ==
  /\ pc = "aiPost"
  /\ ~HasMatchedPair(fullContent)
  /\ OpenStarts(fullContent) # {}
  /\ FinalResponse = fullContent

\* C13: while the buffer holds an opening marker and no closing marker, the
\* read loop has response = the trimmed text before the marker, reasoning =
\* the trimmed text after it, and insideReasoning = true.
C13_OpenWithoutClose ==
  (pc = "reading" /\ OpenStarts(fullContent) # {} /\ CloseStarts(fullContent) = {})
    => /\ currentResponseText = trim(BeforeOpen(fullContent))
       /\ currentThinkingText = trim(AfterOpen(fullContent))
       /\ isInsideThinkTag

\* C14: a closing marker with no opening marker before it is ordinary text:
\* with no opening marker at all the buffer is all response; with an opening
\* marker later (and no closing marker after that) the split is the one of a
\* dangling opening marker.
C14_StrayCloseIsText ==
  LET opens == OpenStarts(fullContent)
      closes == CloseStarts(fullContent)
      stray == /\ closes # {}
               /\ opens # {} => /\ MinOf(closes) < MinOf(opens)
                                /\ ~HasMatchedPair(fullContent)
  IN /\ (pc = "reading" /\ stray /\ opens = {})
          => /\ currentResponseText = trim(fullContent)
             /\ currentThinkingText = <<>>
             /\ ~isInsideThinkTag
     /\ (pc = "reading" /\ stray /\ opens # {})
          => /\ currentResponseText = trim(BeforeOpen(fullContent))
             /\ currentThinkingText = trim(AfterOpen(fullContent))
     /\ (pc = "aiPost" /\ stray /\ opens = {})
          => /\ FinalResponse = fullContent
             /\ FinalReasoning = <<>>

\* C15: a marker-free (response, reasoning) pair, stored as the commit stores
\* it and read back as the page load reads it, comes back unchanged.
C15_RoundTrip ==
  (pc = "aiPost" /\ MarkerFree(FinalResponse) /\ MarkerFree(FinalReasoning))
    => LET loaded == deserialize(asStoredAi(posts[Len(posts)].content))
       IN /\ loaded.text = FinalResponse
          /\ loaded.thinkingText = FinalReasoning

\* The stored format: the response, then, only if there is reasoning, two
\* newlines and the reasoning between the markers.
StoredFormat(response, reasoning) ==
  IF reasoning # <<>>
  THEN response \o <<"\n","\n">> \o OpenTag \o reasoning \o CloseTag
  ELSE response

\* C16: every write stores the response alone when the reasoning is empty,
\* and the response, two newlines and the marked reasoning otherwise.
C16_StoredFormat ==
  /\ \A k \in 1..Len(posts) :
       posts[k].role = "USER" => posts[k].content = StoredFormat(posts[k].response, <<>>)
  /\ pc = "aiPost"
       => posts[Len(posts)].content = StoredFormat(FinalResponse, FinalReasoning)

(***************************************************************************)
(* Properties of the conversation history.                                 *)
(***************************************************************************)
\* A turn of this session (its id was made by createUniqueId), or a turn
\* read from the store on load.
IsClientTurn(m) == m.id[1] = "c"

IsStoredTurn(m) == m.id[1] = "s"

\* The positions of the history that hold a pending turn.
PendingTurns == {k \in 1..Len(conversationHistory) : conversationHistory[k].isPending}

\* C17: the turns of the history are in the order they were opened: stored
\* turns in the order the store created them, then the turns of this session
\* in the order their ids were made.
C17_TurnOrder ==
  \A k, l \in 1..Len(conversationHistory) :
    k < l =>
      LET a == conversationHistory[k]
          b == conversationHistory[l]
      IN /\ (IsClientTurn(a) /\ IsClientTurn(b)) => a.id[2] < b.id[2]
         /\ (IsStoredTurn(a) /\ IsStoredTurn(b)) => a.id[2] < b.id[2]
         /\ ~(IsClientTurn(a) /\ IsStoredTurn(b))

\* Stored turns and two turns of this session are in the history, and the
\* assistant turn has been finalized.
C17_Witness ==
  /\ Len(conversationHistory) >= 3
  /\ IsStoredTurn(conversationHistory[1])
  /\ IsClientTurn(conversationHistory[Len(conversationHistory) - 1])
  /\ IsClientTurn(conversationHistory[Len(conversationHistory)])
  /\ conversationHistory[Len(conversationHistory)].type = "ai"
  /\ ~conversationHistory[Len(conversationHistory)].isPending
  /\ pc = "idle"

\* C18: at most one turn of the history is pending.
C18_AtMostOnePending == Cardinality(PendingTurns) <= 1

\* C19: no step removes a turn from the history or moves it: every turn keeps
\* its position.
C19_AppendOnly ==
  [][ \A k \in 1..Len(conversationHistory) :
        /\ k <= Len(conversationHistory')
        /\ conversationHistory'[k].id = conversationHistory[k].id ]_vars

\* C20: an assistant turn is created pending, is no longer pending once
\* handleSubmit has returned, and never becomes pending again.
C20_PendingOnce ==
  /\ [][ \A k \in 1..Len(conversationHistory') :
           LET m == conversationHistory'[k]
               before == {j \in 1..Len(conversationHistory) :
                            conversationHistory[j].id = m.id}
           IN /\ (before = {} /\ IsClientTurn(m) /\ m.type = "ai") => m.isPending
              /\ \A j \in before :
                   ~conversationHistory[j].isPending => ~m.isPending ]_vars
  /\ [](pc = "idle" => PendingTurns = {})

(***************************************************************************)
(* Properties of failure handling.                                         *)
(***************************************************************************)
\* The turns of the history with the given id.
TurnsWithId(id) ==
  {k \in 1..Len(conversationHistory) : conversationHistory[k].id = id}

\* C21: once handleSubmit has returned, a turn whose generation failed or was
\* aborted shows the fixed error message, is not pending, and has its
\* reasoning hidden.
C21_FinalizedError ==
  pc = "idle" =>
    \A id \in failedEmpty : \A k \in TurnsWithId(id) :
      /\ conversationHistory[k].text = ErrorText
      /\ ~conversationHistory[k].isPending
      /\ ~conversationHistory[k].isThinkingVisible

\* How far handleSubmit is from returning: the awaits it still has to pass.
StepsToReturn ==
  CASE pc = "userPost" -> 6
    [] pc = "generating" -> 5
    [] pc = "reading" -> 2 + Len(stream)
    [] pc = "aiPost" -> 1
    [] OTHER -> 0

C23_AbortAtAnyPoint ==
  pc \in {"generating", "reading"} => ENABLED timeoutElapses

(***************************************************************************)
(* Properties of streaming.                                                *)
(***************************************************************************)
\* C24: after each fragment is processed, the text and the reasoning of the
\* in-flight turn are the response and the reasoning the segmenter gave for
\* the cumulative buffer (a field whose new value differs from the one last
\* published is published again).
C24_PublishedIsSegmented ==
  (pc = "reading" /\ fullContent # <<>>) =>
    \A k \in TurnsWithId(thinkingId) :
      /\ conversationHistory[k].text = currentResponseText
      /\ conversationHistory[k].thinkingText = currentThinkingText

\* The id of the user turn of the exchange whose assistant turn is id.
UserTurnOf(id) == clientId(id[2] - 1)

\* The write of the user turn id was issued and has completed among the
\* first n store writes.
UserWriteDone(id, n) ==
  \E j \in 1..n :
    /\ posts[j].turn = id /\ posts[j].role = "USER"
    /\ posts[j].result # "pending"

\* C25: within a submit the store write of the user turn is issued and has
\* completed, with success or failure, before the generation request is sent
\* and so before the store write of the assistant turn is issued.
C25_UserWriteFirst ==
  /\ pc \in {"generating", "reading", "aiPost"} =>
       UserWriteDone(UserTurnOf(thinkingId), Len(posts))
  /\ \A k \in 1..Len(posts) :
       posts[k].role = "AI" => UserWriteDone(UserTurnOf(posts[k].turn), k - 1)

\* The assistant turn's write is in flight after the user turn's write failed.
C25_Witness ==
  /\ pc = "aiPost"
  /\ Len(posts) = 2
  /\ posts[1].role = "USER" /\ posts[1].result = "http_error"
  /\ posts[2].role = "AI" /\ posts[2].result = "pending"

\* The buffer holds one opening marker and one closing marker, the closing
\* one after the opening one.
ExactlyOnePair(s) ==
  /\ Cardinality(OpenStarts(s)) = 1
  /\ Cardinality(CloseStarts(s)) = 1
  /\ HasMatchedPair(s)

\* C26: for a complete buffer with exactly one well-formed marker pair the
\* final pass gives the response and the reasoning the read loop held after
\* the last fragment, so finalization does not change the text shown.
C26_FinalPassKeepsSplit ==
  (pc = "aiPost" /\ ExactlyOnePair(fullContent)) =>
    /\ FinalResponse = currentResponseText
    /\ FinalReasoning = currentThinkingText

\* The last store write was the write of the assistant turn of the submit
\* just returned, and the store created its record.
AssistantTurnStored ==
  /\ pc = "idle"
  /\ posts # <<>>
  /\ posts[Len(posts)].role = "AI"
  /\ posts[Len(posts)].turn = thinkingId
  /\ posts[Len(posts)].result = "ok"
  /\ thinkingId \notin failedEmpty

\* C27: the stored record of a successfully finalized assistant turn, read
\* back by a page load, is a turn with the text and the reasoning the
\* finalized turn had in memory, not pending and with its reasoning hidden.
C27_HydrationKeepsTurn ==
  AssistantTurnStored =>
    \A k \in TurnsWithId(thinkingId) :
      LET loaded == deserialize(store[Len(store)])
      IN /\ loaded.text = conversationHistory[k].text
         /\ loaded.thinkingText = conversationHistory[k].thinkingText
         /\ ~loaded.isPending
         /\ ~loaded.isThinkingVisible

\* C29: the turn ids of the history are pairwise distinct, and the id the
\* ledger is consulted for (the next id in addMessage, the assistant turn's id
\* at the commit) is not in the ledger, so the consultation never suppresses
\* a write: every submit issues the user turn's write and every end of the
\* read loop issues the assistant turn's write.
C29_IdsDistinctAndFresh ==
  /\ [](\A k, l \in 1..Len(conversationHistory) :
          k # l => conversationHistory[k].id # conversationHistory[l].id)
  /\ [](pc = "idle" => clientId(createUniqueId(messageIdCounter)) \notin savedMessageIdsRef)
  /\ [](pc = "reading" => thinkingId \notin savedMessageIdsRef)
  /\ [][ /\ (pc = "idle" /\ pc' # "idle") => pc' = "userPost"
         /\ (pc = "reading" /\ pc' # "reading") => pc' = "aiPost" ]_vars

\* The ledger was consulted for the assistant turn while it held ids of
\* stored turns and the id of the user turn.
C29_Witness ==
  /\ pc = "aiPost"
  /\ <<"s", 1>> \in savedMessageIdsRef
  /\ UserTurnOf(thinkingId) \in savedMessageIdsRef


(***************************************************************************)
(* Properties of the metadata saves.                                       *)
(***************************************************************************)
\* C28: with no metadata edit since the page was loaded (or since the last
\* completed save) no automatic PATCH is issued: here, the loaded page whose
\* metadata was never edited issues none.
C28_NoSaveWithoutEdit ==
  [][ (loadState = "done" /\ PatchIssued("auto")) => editCount >= 1 ]_vars

\* C30: a metadata PATCH, automatic or manual, carries the project id, the
\* title and the briefing and nothing else, and a step that issues or settles
\* one leaves the stored message records as they were.
C30_SavesLeaveTurnsAlone ==
  /\ [](\A k \in 1..Len(patchesInFlight) :
          DOMAIN patchesInFlight[k].body = {"id", "title", "briefing"})
  /\ [][ Len(patchesInFlight') # Len(patchesInFlight) => store' = store ]_vars

\* An automatic and a manual save were issued for a loaded project that has
\* stored turns, and a save has changed the stored title.
C30_Witness ==
  /\ projectDetails.messages # <<>>
  /\ store # <<>>
  /\ lastManualAt >= 0
  /\ autoSinceEdit >= 1
  /\ serverDetails.title = "T2"
  /\ patchesInFlight = <<>>
====
